---- MODULE Spec2Model ----
(***************************************************************************)
(* A model of glitchub/mem: the command line tool that reads and writes    *)
(* physical memory through /dev/mem.  Two variants of the program exist:   *)
(* the basic one (src/mem.c: widths b h w d, page size 4096 fixed) and the *)
(* extended one (src/unnamed/part_000: adds the swapped modes H W D and    *)
(* asks the system for the page size).  Both are the same state machine;   *)
(* the variable "variant" says which one runs.                             *)
(*                                                                         *)
(* Representation.  A C string is a sequence of one-character strings, the *)
(* terminating NUL is what CharAt gives past the end.  A uint64_t is a     *)
(* sequence of 8 bytes, least significant first (TLC's integers are 32 bit *)
(* wide, a uint64_t does not fit in one).  Physical memory is byte         *)
(* addressed: a byte never written holds InitByte; "mem" records the bytes *)
(* written so far.  A load or store of n bytes at an address is performed  *)
(* bytewise in the byte order of the machine, at any alignment: the two    *)
(* page mapping of part_000:156 exists to serve unaligned accesses.        *)
(***************************************************************************)
EXTENDS Integers, Sequences, FiniteSets, TLC

(***************************************************************************)
(* Characters and C strings                                                *)
(***************************************************************************)
NUL == ""

CharAt(s, i) == IF i >= 1 /\ i <= Len(s) THEN s[i] ELSE NUL

\* isspace() in the C locale
IsSpace(c) == c \in {" ", "\t", "\n", "\r", "\f"}

\* the value of a character as a digit, 99 for a character that is none
DigitVal(c) ==
  CASE c = "0" -> 0  [] c = "1" -> 1  [] c = "2" -> 2  [] c = "3" -> 3
    [] c = "4" -> 4  [] c = "5" -> 5  [] c = "6" -> 6  [] c = "7" -> 7
    [] c = "8" -> 8  [] c = "9" -> 9
    [] c \in {"a", "A"} -> 10  [] c \in {"b", "B"} -> 11
    [] c \in {"c", "C"} -> 12  [] c \in {"d", "D"} -> 13
    [] c \in {"e", "E"} -> 14  [] c \in {"f", "F"} -> 15
    [] OTHER -> 99

(***************************************************************************)
(* uint64_t arithmetic on 8 bytes, least significant byte first            *)
(***************************************************************************)
Byte == 0..255

Zero64 == <<0, 0, 0, 0, 0, 0, 0, 0>>

\* ULLONG_MAX
AllOnes64 == <<255, 255, 255, 255, 255, 255, 255, 255>>

RECURSIVE MulAddFrom(_, _, _, _)
\* bytes i.. of v * m + c, and the carry out of the top byte
MulAddFrom(v, m, c, i) ==
  IF i > Len(v) THEN [d |-> <<>>, carry |-> c]
  ELSE LET t == v[i] * m + c
           r == MulAddFrom(v, m, t \div 256, i + 1)
       IN  [d |-> <<t % 256>> \o r.d, carry |-> r.carry]

\* unary minus on uint64_t: 2^64 - v
Neg64(v) == MulAddFrom([i \in 1..8 |-> 255 - v[i]], 1, 1, 1).d

RECURSIVE BitAnd(_, _, _)
BitAnd(a, b, n) ==
  IF n = 0 THEN 0
  ELSE IF a = 0 \/ b = 0 THEN 0
  ELSE 2 * BitAnd(a \div 2, b \div 2, n - 1) + (IF a % 2 = 1 /\ b % 2 = 1 THEN 1 ELSE 0)

RECURSIVE BitOr(_, _, _)
BitOr(a, b, n) ==
  IF n = 0 THEN 0
  ELSE IF a = 0 THEN b ELSE IF b = 0 THEN a
  ELSE 2 * BitOr(a \div 2, b \div 2, n - 1) + (IF a % 2 = 1 \/ b % 2 = 1 THEN 1 ELSE 0)

RECURSIVE BitXor(_, _, _)
BitXor(a, b, n) ==
  IF n = 0 THEN 0
  ELSE IF a = 0 THEN b ELSE IF b = 0 THEN a
  ELSE 2 * BitXor(a \div 2, b \div 2, n - 1) + (IF a % 2 # b % 2 THEN 1 ELSE 0)

And64(a, b) == [i \in 1..8 |-> BitAnd(a[i], b[i], 8)]
Or64(a, b)  == [i \in 1..8 |-> BitOr(a[i], b[i], 8)]
Xor64(a, b) == [i \in 1..8 |-> BitXor(a[i], b[i], 8)]

\* conversion of a uint64_t to an unsigned type of n bytes: the low n bytes
Trunc(v, n) == SubSeq(v, 1, n)

\* conversion of an unsigned type of n bytes to uint64_t: zero extension
ZeroExt(v) == [i \in 1..8 |-> IF i <= Len(v) THEN v[i] ELSE 0]

\* byte reversal of an n byte value
Reverse(v) == [i \in 1..Len(v) |-> v[Len(v) + 1 - i]]

\* bswap_16, bswap_32, bswap_64 of <byteswap.h>, applied to a uint64_t: the
\* argument is converted to the n byte parameter type, reversed, and the
\* result converted back
Bswap(v, n) == ZeroExt(Reverse(Trunc(v, n)))

(***************************************************************************)
(* strtoull(s + start - 1, &end, 0)                                        *)
(***************************************************************************)
RECURSIVE SkipSpace(_, _)
SkipSpace(s, i) == IF IsSpace(CharAt(s, i)) THEN SkipSpace(s, i + 1) ELSE i

RECURSIVE Accumulate(_, _, _, _, _)
\* the digits of the given base from position i on: the value, whether it
\* passed ULLONG_MAX, and the position of the first character that is no digit
Accumulate(s, i, base, v, ovf) ==
  IF DigitVal(CharAt(s, i)) < base
  THEN LET r == MulAddFrom(v, base, DigitVal(CharAt(s, i)), 1)
       IN  Accumulate(s, i + 1, base, r.d, ovf \/ r.carry > 0)
  ELSE [val |-> v, ovf |-> ovf, end |-> i]

\* val is the result, end the position *endptr is set to (end = start: no
\* conversion was performed).  Base 0: 0x or 0X starts a hexadecimal number,
\* 0 an octal one, anything else a decimal one; white space and a sign may
\* come first; a value past ULLONG_MAX gives ULLONG_MAX; a minus sign negates.
Strtoull(s, start) ==
  LET i1   == SkipSpace(s, start)
      neg  == CharAt(s, i1) = "-"
      i2   == IF CharAt(s, i1) \in {"-", "+"} THEN i1 + 1 ELSE i1
      hex  == CharAt(s, i2) = "0" /\ CharAt(s, i2 + 1) \in {"x", "X"}
      base == IF hex THEN 16 ELSE IF CharAt(s, i2) = "0" THEN 8 ELSE 10
      i3   == IF hex THEN i2 + 2 ELSE i2
      r    == Accumulate(s, i3, base, Zero64, FALSE)
  IN  IF r.end = i3
      THEN \* no digits; "0x" that no hexadecimal digit follows is the number 0
           IF hex THEN [val |-> Zero64, end |-> i2 + 1]
                  ELSE [val |-> Zero64, end |-> start]
      ELSE [val |-> IF r.ovf THEN AllOnes64 ELSE IF neg THEN Neg64(r.val) ELSE r.val,
            end |-> r.end]

\* MAXOPS one short: the array full one entry early
MaxOpsShort == 256 - 1

(***************************************************************************)
(* The parser                                                              *)
(***************************************************************************)
MAXOPS == 256

READ  == "READ"
WRITE == "WRITE"
AND   == "AND"
OR    == "OR"
XOR   == "XOR"

\* ModeExtended with "case 'h'" setting swap like "case 'H'"
ModeExtendedSwapSlip(c) ==
  CASE c = "b" -> [hit |-> TRUE, width |-> 8,  swap |-> FALSE]
    [] c = "h" -> [hit |-> TRUE, width |-> 16, swap |-> TRUE]
    [] c = "w" -> [hit |-> TRUE, width |-> 32, swap |-> FALSE]
    [] c = "d" -> [hit |-> TRUE, width |-> 64, swap |-> FALSE]
    [] c = "H" -> [hit |-> TRUE, width |-> 16, swap |-> TRUE]
    [] c = "W" -> [hit |-> TRUE, width |-> 32, swap |-> TRUE]
    [] c = "D" -> [hit |-> TRUE, width |-> 64, swap |-> TRUE]
    [] OTHER   -> [hit |-> FALSE, width |-> 0, swap |-> FALSE]

\* the mode switch of the extended variant on the first character of a token
ModeExtended(c) ==
  CASE c = "b" -> [hit |-> TRUE, width |-> 8,  swap |-> FALSE]
    [] c = "h" -> [hit |-> TRUE, width |-> 16, swap |-> FALSE]
    [] c = "w" -> [hit |-> TRUE, width |-> 32, swap |-> FALSE]
    [] c = "d" -> [hit |-> TRUE, width |-> 64, swap |-> FALSE]
    [] c = "H" -> [hit |-> TRUE, width |-> 16, swap |-> TRUE]
    [] c = "W" -> [hit |-> TRUE, width |-> 32, swap |-> TRUE]
    [] c = "D" -> [hit |-> TRUE, width |-> 64, swap |-> TRUE]
    [] OTHER   -> [hit |-> FALSE, width |-> 0, swap |-> FALSE]

\* the mode switch of the basic variant, which has no swap
ModeBasic(c) ==
  CASE c = "b" -> [hit |-> TRUE, width |-> 8,  swap |-> FALSE]
    [] c = "h" -> [hit |-> TRUE, width |-> 16, swap |-> FALSE]
    [] c = "w" -> [hit |-> TRUE, width |-> 32, swap |-> FALSE]
    [] c = "d" -> [hit |-> TRUE, width |-> 64, swap |-> FALSE]
    [] OTHER   -> [hit |-> FALSE, width |-> 0, swap |-> FALSE]

\* switch (*arg): only the first character of the token is looked at
ModeSwitch(v, arg) ==
  IF v = "extended" THEN ModeExtended(CharAt(arg, 1)) ELSE ModeBasic(CharAt(arg, 1))

\* SwapData left out: the value is held as it was given
SwapDataNone(data, w, sw) == data

\* SwapData with bswap_64 at every width: the swap comes before the truncation
SwapDataWide(data, w, sw) ==
  IF sw /\ w \in {16, 32, 64} THEN Bswap(data, 8) ELSE data

\* if (swap) switch(width) { case 16: data = bswap_16(data); ... }
SwapData(data, w, sw) ==
  IF sw /\ w \in {16, 32, 64} THEN Bswap(data, w \div 8) ELSE data

Choke == [ok |-> FALSE]

\* ParseValue without "if (!*p) goto choke": an empty value reads as 0
ParseValueNoEmptyCheck(arg, p, kind, w, sw, addr) ==
  LET r == Strtoull(arg, p)
  IN  IF CharAt(arg, r.end) # NUL THEN Choke
      ELSE [ok |-> TRUE,
            op |-> [operator |-> kind, width |-> w, swap |-> sw,
                    address |-> addr, data |-> SwapData(r.val, w, sw)]]

\* the value after the operator, p the position after the operator
ParseValue(arg, p, kind, w, sw, addr) ==
  IF CharAt(arg, p) = NUL THEN Choke
  ELSE LET r == Strtoull(arg, p)
       IN  IF CharAt(arg, r.end) # NUL THEN Choke
           ELSE [ok |-> TRUE,
                 op |-> [operator |-> kind, width |-> w, swap |-> sw,
                         address |-> addr, data |-> SwapData(r.val, w, sw)]]

\* ParseOperation with the cases '^' and '|' exchanged
ParseOperationKindsMixed(arg, w, sw) ==
  LET a == Strtoull(arg, 1)
      c == CharAt(arg, a.end)
      p == a.end + 1
  IN  IF a.end = 1 THEN Choke
      ELSE CASE c = NUL -> [ok |-> TRUE,
                            op |-> [operator |-> READ, width |-> w, swap |-> sw,
                                    address |-> a.val, data |-> Zero64]]
             [] c = "&" -> IF CharAt(arg, p) # "=" THEN Choke
                           ELSE ParseValue(arg, p + 1, AND, w, sw, a.val)
             [] c = "^" -> IF CharAt(arg, p) # "=" THEN Choke
                           ELSE ParseValue(arg, p + 1, OR, w, sw, a.val)
             [] c = "|" -> IF CharAt(arg, p) # "=" THEN Choke
                           ELSE ParseValue(arg, p + 1, XOR, w, sw, a.val)
             [] c = "=" -> ParseValue(arg, p, WRITE, w, sw, a.val)
             [] OTHER   -> Choke

\* a token that is no mode token, parsed in the mode (w, sw): the entry of
\* OP it fills, or Choke for the jump to "choke"
ParseOperation(arg, w, sw) ==
  LET a == Strtoull(arg, 1)
      c == CharAt(arg, a.end)
      p == a.end + 1
  IN  IF a.end = 1 THEN Choke
      ELSE CASE c = NUL -> [ok |-> TRUE,
                            op |-> [operator |-> READ, width |-> w, swap |-> sw,
                                    address |-> a.val, data |-> Zero64]]
             [] c = "&" -> IF CharAt(arg, p) # "=" THEN Choke
                           ELSE ParseValue(arg, p + 1, AND, w, sw, a.val)
             [] c = "^" -> IF CharAt(arg, p) # "=" THEN Choke
                           ELSE ParseValue(arg, p + 1, XOR, w, sw, a.val)
             [] c = "|" -> IF CharAt(arg, p) # "=" THEN Choke
                           ELSE ParseValue(arg, p + 1, OR, w, sw, a.val)
             [] c = "=" -> ParseValue(arg, p, WRITE, w, sw, a.val)
             [] OTHER   -> Choke

(***************************************************************************)
(* The executor: page arithmetic, memory, output                           *)
(***************************************************************************)
\* #define PAGESIZE of the basic variant
PAGESIZE == 4096

\* the low 24 bits of a uint64_t as an integer
Low24(v) == v[1] + 256 * v[2] + 65536 * v[3]

\* uint64_t + small integer, modulo 2^64
Add64(v, k) ==
  IF v[1] + k < 256 THEN [v EXCEPT ![1] = v[1] + k] ELSE MulAddFrom(v, 1, k, 1).d

\* int pagesize: PAGESIZE in the basic variant, getpagesize() in the extended
\* one, where sysPage is the page size of the running system
PageSizeOf(v, sysPage) == IF v = "extended" THEN sysPage ELSE PAGESIZE

\* int offset = OP[op].address % pagesize, for a page size that divides 2^24
PageOffset(addr, pagesize) == Low24(addr) % pagesize

\* MapSize with ">=" for ">": two pages also when the access ends at the boundary
MapSizeEager(offset, w, pagesize) ==
  IF offset + (w \div 8) >= pagesize THEN 2 * pagesize ELSE pagesize

\* int size = ((offset + (OP[op].width/8)) > pagesize) ? 2*pagesize : pagesize
MapSize(offset, w, pagesize) ==
  IF offset + (w \div 8) > pagesize THEN 2 * pagesize ELSE pagesize

\* OP[op].address - offset: the low 24 bits lose the offset, the rest stays
MapStart(addr, offset) ==
  LET lo == Low24(addr) - offset
  IN  [i \in 1..8 |-> CASE i = 1 -> lo % 256
                        [] i = 2 -> (lo \div 256) % 256
                        [] i = 3 -> lo \div 65536
                        [] OTHER -> addr[i]]

\* what mmap() refuses whatever the state of the system: a negative off_t,
\* and an offset that is no multiple of the system's page size (EINVAL)
MmapRefuses(start, sysPage) == start[8] >= 128 \/ Low24(start) % sysPage # 0

\* the length mmap() maps: size rounded up to whole pages of the system
MappedLength(size, sysPage) == ((size + sysPage - 1) \div sysPage) * sysPage

\* content of physical memory before the run, byte by byte
InitByte(seed, a) ==
  (seed * 89 + a[1] * 37 + a[2] * 11 + a[3] * 5 + a[4] + a[8] + 13) % 256

ByteAt(m, seed, a) == IF a \in DOMAIN m THEN m[a] ELSE InitByte(seed, a)

\* the address of the byte that holds byte i (1 the least significant) of an
\* n byte object at address a
ByteAddr(a, n, i, be) == Add64(a, IF be THEN n - i ELSE i - 1)

\* *(volatile uintN_t *) address, N = 8 * n
Load(m, seed, a, n, be) == [i \in 1..n |-> ByteAt(m, seed, ByteAddr(a, n, i, be))]

\* *(uintN_t *) address = v, v of n bytes
RECURSIVE StoreFrom(_, _, _, _, _, _)
StoreFrom(m, a, n, be, v, i) ==
  IF i > n THEN m
  ELSE StoreFrom((ByteAddr(a, n, i, be) :> v[i]) @@ m, a, n, be, v, i + 1)

\* Store through a uint64_t pointer whatever the width: eight bytes are written
StoreWide(m, a, n, be, v) == StoreFrom(m, a, 8, be, ZeroExt(v), 1)

Store(m, a, n, be, v) == StoreFrom(m, a, n, be, v, 1)

HexChars == <<"0", "1", "2", "3", "4", "5", "6", "7",
              "8", "9", "A", "B", "C", "D", "E", "F">>

RECURSIVE HexOf(_, _)
\* bytes i down to 1 of v as upper case hexadecimal, two characters a byte
HexOf(v, i) ==
  IF i = 0 THEN <<>>
  ELSE <<HexChars[(v[i] \div 16) + 1], HexChars[(v[i] % 16) + 1]>> \o HexOf(v, i - 1)

\* printf("0x%.2X\n"), "0x%.4X\n", "0x%.8X\n", "0x%.16lX\n" of an n byte value
Format(v) == <<"0", "x">> \o HexOf(v, Len(v))

\* ReadValue without the swap after the load
ReadValueNoSwap(m, seed, o, be) == Load(m, seed, o.address, o.width \div 8, be)

\* the value a READ prints: the object at the address, byte swapped if asked
ReadValue(m, seed, o, be) ==
  LET n == o.width \div 8
      data == Load(m, seed, o.address, n, be)
  IN  IF o.swap /\ o.width \in {16, 32, 64} THEN Reverse(data) ELSE data

\* Combine with "&=" taken as "=": the old content plays no part
CombineAndAssigns(kind, old, v) ==
  LET n == Len(old)
  IN  CASE kind = WRITE -> Trunc(v, n)
        [] kind = AND   -> Trunc(v, n)
        [] kind = OR    -> Trunc(Or64(ZeroExt(old), v), n)
        [] kind = XOR   -> Trunc(Xor64(ZeroExt(old), v), n)

\* E1 = v;  E1 &= v;  E1 |= v;  E1 ^= v  with E1 of n bytes and v a uint64_t:
\* the old value is extended to 64 bits, combined, and the result converted
\* back to n bytes
Combine(kind, old, v) ==
  LET n == Len(old)
  IN  CASE kind = WRITE -> Trunc(v, n)
        [] kind = AND   -> Trunc(And64(ZeroExt(old), v), n)
        [] kind = OR    -> Trunc(Or64(ZeroExt(old), v), n)
        [] kind = XOR   -> Trunc(Xor64(ZeroExt(old), v), n)

\* memory after the access of operation o (READ: unchanged)
Access(m, seed, o, be) ==
  LET n == o.width \div 8
  IN  IF o.operator = READ THEN m
      ELSE Store(m, o.address, n, be,
                 Combine(o.operator, Load(m, seed, o.address, n, be), o.data))

(***************************************************************************)
(* The argument vectors the model runs                                     *)
(***************************************************************************)
\* the longest vector of the exhaustive family
MaxArgs == 3

\* page sizes of the running system
PageSizes == {4096, 16384}

\* initial contents of physical memory
MemSeeds == {0, 1}

ModeTokens == {<<"b">>, <<"h">>, <<"w">>, <<"d">>, <<"H">>, <<"W">>, <<"D">>}

\* 0xFFF: the last byte of a 4096 byte page; 0x3FFD: three bytes before the
\* end of a 16384 byte page; 262144 = 0x40000: the start of a page; 010 = 8
AddrTexts == {<<"0", "x", "F", "F", "F">>, <<"0", "x", "3", "F", "F", "D">>,
              <<"2", "6", "2", "1", "4", "4">>, <<"0", "1", "0">>}

\* values with bits above every width but 64, with bits above sixteen ones,
\* all ones (-1), and zero
ValueTexts == {<<"0", "x", "1", "1", "2", "2", "3", "3", "4", "4",
                 "A", "5", "B", "6", "C", "7", "D", "8">>,
               <<"0", "x", "1", "8", "0", "F", "E">>,
               <<"0", "x", "1", "F", "F", "F", "F">>,
               <<"-", "1">>, <<"0">>}

OperatorTexts == {<<"=">>, <<"&", "=">>, <<"^", "=">>, <<"|", "=">>}

ReadTokens == AddrTexts

ModifyTokens == {a \o k \o v : a \in AddrTexts, k \in OperatorTexts, v \in ValueTexts}

OpTokens == ReadTokens \cup ModifyTokens

\* tokens that are neither a mode character nor an operation
BadTokens == {<<>>, <<"x">>, <<"0", "x">>, <<"1", "&", "5">>, <<"1", "+", "2">>,
              <<"1", "=">>, <<"1", "|", "=">>, <<"1", "=", "2", "z">>,
              <<"1", "=", "=", "2">>, <<"1", "=", "z">>,
              <<"1", "^", "5">>, <<"1", "|", "5">>, <<"1", "&">>,
              <<"1", "&", "=">>, <<"1", "^", "=">>, <<"1", " ", "=", "2">>}

\* tokens of more than one character that begin with a mode character
ModeLikeTokens == {<<"b", "a", "d">>, <<"d", "e", "a", "d", "b", "e", "e", "f">>,
                   <<"w", "0", "x", "1", "0", "0", "0", "=", "5">>,
                   <<"H", "0", "x", "F", "F", "F">>}

TokA     == <<"0", "x", "F", "F", "F">>
TokWrite == <<"0", "x", "F", "F", "F", "=", "0", "x", "1", "8", "0", "F", "E">>
TokXor   == <<"0", "x", "F", "F", "F", "^", "=", "-", "1">>
TokB     == <<"0", "1", "0">>

CoreTokens == {<<"b">>, <<"H">>, TokA, TokWrite, TokXor, <<"x">>, <<"b", "a", "d">>}

RECURSIVE SeqsUpTo(_, _)
\* the sequences over S of length at most n
SeqsUpTo(S, n) ==
  IF n = 0 THEN {<<>>}
  ELSE LET shorter == SeqsUpTo(S, n - 1)
       IN  shorter \cup {Append(q, t) : q \in {r \in shorter : Len(r) = n - 1}, t \in S}

\* every short vector over the core tokens
ExhaustiveArgs == SeqsUpTo(CoreTokens, MaxArgs)

\* one operation, in the default mode and after each mode token
ModeOpArgs == {<<t>> : t \in OpTokens} \cup {<<m, t>> : m \in ModeTokens, t \in OpTokens}

\* a write and a read of the same address in one mode
RoundTripArgs ==
  LET pairs == {<<a \o <<"=">> \o v, a>> : a \in AddrTexts, v \in ValueTexts}
  IN  pairs \cup {<<m>> \o q : m \in ModeTokens, q \in pairs}

\* a token that is no operation, alone, after a write, and between modes
BadArgs ==
  LET odd == BadTokens \cup ModeLikeTokens
  IN  {<<t>> : t \in odd} \cup {<<TokWrite, t>> : t \in odd}
        \cup {<<TokWrite, t, TokA>> : t \in odd}
        \cup {<<<<"h">>, t, TokA>> : t \in odd}

\* modes that persist and change: b addr1 addr2=5 h addr3, and two modes in a row
PersistArgs ==
  {<<<<"b">>, TokA, <<"0", "1", "0", "=", "5">>, <<"h">>, TokB>>}
    \cup {<<m1, m2, TokA>> : m1 \in ModeTokens, m2 \in ModeTokens}
    \cup {<<m1, TokWrite, m2, TokA>> : m1 \in {<<"H">>, <<"D">>}, m2 \in ModeTokens}

\* a xor and a read by turns
Turns(n) == [i \in 1..n |-> IF i % 2 = 1 THEN TokXor ELSE TokA]

\* MAXOPS 8 bit operations between mode tokens, and one operation more
LimitArgs ==
  {<<<<"b">>>> \o Turns(MAXOPS) \o <<<<"h">>>>,
   <<<<"b">>>> \o Turns(MAXOPS) \o <<<<"h">>, TokA>>}

\* a swapped mode, two operations of any kind on 0xFFF, and a read of 0xFFF
SameAddrTokens ==
  {TokA} \cup {TokA \o k \o v : k \in OperatorTexts,
                                v \in {<<"0", "x", "1", "8", "0", "F", "E">>,
                                       <<"0", "x", "1", "1", "2", "2", "3", "3", "4", "4",
                                         "A", "5", "B", "6", "C", "7", "D", "8">>}}

SwapSeqArgs ==
  {<<m, t1, t2, TokA>> : m \in {<<"H">>, <<"W">>, <<"D">>},
                         t1 \in SameAddrTokens, t2 \in SameAddrTokens}

\* the vectors run on every machine and memory content
ArgVectors == ModeOpArgs \cup RoundTripArgs \cup BadArgs \cup PersistArgs

(***************************************************************************)
(* The program                                                             *)
(***************************************************************************)
VARIABLES
  variant,    \* "basic" (mem.c) or "extended" (part_000)
  sysPage,    \* the page size of the running system
  bigEndian,  \* the byte order of the machine
  seed,       \* names the initial content of physical memory
  argv,       \* argv[1..argc-1]
  x,          \* the position of the next token
  width,      \* the current mode
  swap,
  OP,         \* OP[0..ops-1]; ops is Len(OP)
  pc,         \* where main is
  fd,         \* /dev/mem is open
  op,         \* the operation the executor is at, counted from 1
  maps,       \* the mappings that are live: [start, size]
  mem,        \* the bytes of physical memory written so far
  out,        \* the lines of standard output
  err,        \* what was printed on standard error
  status,     \* the exit status, -1 while running
  log         \* history: the executor's steps, <<step, op>>

vars == <<variant, sysPage, bigEndian, seed, argv, x, width, swap, OP, pc, fd,
          op, maps, mem, out, err, status, log>>

env == <<variant, sysPage, bigEndian, seed, argv>>

EmptyMem == [a \in {} |-> 0]

ops == Len(OP)

Init ==
  /\ variant \in {"basic", "extended"}
  /\ \/ argv \in ArgVectors /\ sysPage \in PageSizes
        /\ bigEndian \in BOOLEAN /\ seed \in MemSeeds
     \/ argv \in ExhaustiveArgs /\ sysPage \in PageSizes
        /\ bigEndian = FALSE /\ seed = 0
     \/ argv \in LimitArgs /\ sysPage = PAGESIZE
        /\ bigEndian = FALSE /\ seed = 0
     \/ argv \in SwapSeqArgs /\ sysPage = PAGESIZE
        /\ bigEndian \in BOOLEAN /\ seed \in MemSeeds
  /\ x = 1
  /\ width = 32
  /\ swap = FALSE
  /\ OP = <<>>
  /\ pc = "Parse"
  /\ fd = FALSE
  /\ op = 0
  /\ maps = {}
  /\ mem = EmptyMem
  /\ out = <<>>
  /\ err = <<>>
  /\ status = -1
  /\ log = <<>>

\* die(...): the message on standard error, exit(1)
Die(msg) ==
  /\ err' = msg
  /\ status' = 1
  /\ pc' = "Exit"

\* a token the mode switch takes: it sets the mode and nothing else
ParseMode ==
  /\ pc = "Parse" /\ x <= Len(argv)
  /\ ModeSwitch(variant, argv[x]).hit
  /\ width' = ModeSwitch(variant, argv[x]).width
  /\ swap' = ModeSwitch(variant, argv[x]).swap
  /\ x' = x + 1
  /\ UNCHANGED <<env, OP, pc, fd, op, maps, mem, out, err, status, log>>

\* if (ops == MAXOPS) die ("Too many operations\n")
ParseTooMany ==
  /\ pc = "Parse" /\ x <= Len(argv)
  /\ ~ModeSwitch(variant, argv[x]).hit
  /\ ops = MAXOPS
  /\ Die(<<"Too many operations">>)
  /\ UNCHANGED <<env, x, width, swap, OP, fd, op, maps, mem, out, log>>

\* choke: die("'%s' is invalid\n", arg)
ParseChoke ==
  /\ pc = "Parse" /\ x <= Len(argv)
  /\ ~ModeSwitch(variant, argv[x]).hit
  /\ ops < MAXOPS
  /\ ~ParseOperation(argv[x], width, swap).ok
  /\ Die(<<"is invalid", argv[x]>>)
  /\ UNCHANGED <<env, x, width, swap, OP, fd, op, maps, mem, out, log>>

\* next: ops++
ParseOp ==
  /\ pc = "Parse" /\ x <= Len(argv)
  /\ ~ModeSwitch(variant, argv[x]).hit
  /\ ops < MAXOPS
  /\ ParseOperation(argv[x], width, swap).ok
  /\ OP' = Append(OP, ParseOperation(argv[x], width, swap).op)
  /\ x' = x + 1
  /\ UNCHANGED <<env, width, swap, pc, fd, op, maps, mem, out, err, status, log>>

\* Usage that prints the text and leaves with status 0
UsageExitsZero ==
  /\ pc = "Parse" /\ x > Len(argv)
  /\ ops = 0
  /\ err' = <<"Usage">>
  /\ status' = 0
  /\ pc' = "Exit"
  /\ UNCHANGED <<env, x, width, swap, OP, fd, op, maps, mem, out, log>>

\* if (!ops) usage()
Usage ==
  /\ pc = "Parse" /\ x > Len(argv)
  /\ ops = 0
  /\ Die(<<"Usage">>)
  /\ UNCHANGED <<env, x, width, swap, OP, fd, op, maps, mem, out, log>>

\* open("/dev/mem", O_RDWR|O_SYNC) succeeds; the loop starts at the first operation
OpenOk ==
  /\ pc = "Parse" /\ x > Len(argv)
  /\ ops > 0
  /\ fd' = TRUE
  /\ op' = 1
  /\ pc' = "MapPending"
  /\ UNCHANGED <<env, x, width, swap, OP, maps, mem, out, err, status, log>>

\* OpenFail without the test of fd: the executor starts with no device
OpenFailIgnored ==
  /\ pc = "Parse" /\ x > Len(argv)
  /\ ops > 0
  /\ op' = 1
  /\ pc' = "MapPending"
  /\ UNCHANGED <<env, x, width, swap, OP, fd, maps, mem, out, err, status, log>>

\* open fails: die("Can't open /dev/mem: ...")
OpenFail ==
  /\ pc = "Parse" /\ x > Len(argv)
  /\ ops > 0
  /\ Die(<<"Can't open /dev/mem">>)
  /\ UNCHANGED <<env, x, width, swap, OP, fd, op, maps, mem, out, log>>

\* the mapping operation op asks for
Mapping ==
  LET pagesize == PageSizeOf(variant, sysPage)
      offset   == PageOffset(OP[op].address, pagesize)
  IN  [start |-> MapStart(OP[op].address, offset),
       size  |-> MapSize(offset, OP[op].width, pagesize)]

\* mmap() succeeds
MmapOk ==
  /\ pc = "MapPending"
  /\ ~MmapRefuses(Mapping.start, sysPage)
  /\ maps' = maps \cup {Mapping}
  /\ log' = Append(log, <<"map", op>>)
  /\ pc' = "Mapped"
  /\ UNCHANGED <<env, x, width, swap, OP, fd, op, mem, out, err, status>>

\* MmapFail that ends the process without flushing standard output: the
\* lines printed so far are lost
MmapFailLosesOutput ==
  /\ pc = "MapPending"
  /\ Die(<<"Can't map address", OP[op].address>>)
  /\ out' = <<>>
  /\ UNCHANGED <<env, x, width, swap, OP, fd, op, maps, mem, log>>

\* mmap() returns MAP_FAILED: die("Can't map address 0x...")
MmapFail ==
  /\ pc = "MapPending"
  /\ Die(<<"Can't map address", OP[op].address>>)
  /\ UNCHANGED <<env, x, width, swap, OP, fd, op, maps, mem, out, log>>

\* address = map + offset lies, with the bytes after it, in the mapping
InMapping(o, m) ==
  LET offset == PageOffset(o.address, PageSizeOf(variant, sysPage))
  IN  /\ Add64(m.start, offset) = o.address
      /\ offset + (o.width \div 8) <= MappedLength(m.size, sysPage)

\* DoAccess with OP[ops] for OP[op]: every access is that of the last operation
DoAccessLastOp ==
  /\ pc = "Mapped"
  /\ mem' = Access(mem, seed, OP[ops], bigEndian)
  /\ out' = IF OP[ops].operator = READ
            THEN Append(out, Format(ReadValue(mem, seed, OP[ops], bigEndian)))
            ELSE out
  /\ log' = Append(log, <<"access", op>>)
  /\ pc' = "AccessDone"
  /\ UNCHANGED <<env, x, width, swap, OP, fd, op, maps, err, status>>

\* switch(OP[op].operator): the load, the store or both, and the line a READ
\* prints; an access outside the mapping ends the process (SIGSEGV)
DoAccess ==
  /\ pc = "Mapped"
  /\ IF InMapping(OP[op], Mapping)
     THEN /\ mem' = Access(mem, seed, OP[op], bigEndian)
          /\ out' = IF OP[op].operator = READ
                    THEN Append(out, Format(ReadValue(mem, seed, OP[op], bigEndian)))
                    ELSE out
          /\ log' = Append(log, <<"access", op>>)
          /\ pc' = "AccessDone"
          /\ UNCHANGED <<err, status>>
     ELSE /\ Die(<<"Segmentation fault">>)
          /\ UNCHANGED <<mem, out, log>>
  /\ UNCHANGED <<env, x, width, swap, OP, fd, op, maps>>

\* Munmap that leaves the mapping in place
MunmapLeak ==
  /\ pc = "AccessDone"
  /\ log' = Append(log, <<"unmap", op>>)
  /\ pc' = "Unmapped"
  /\ UNCHANGED <<env, x, width, swap, OP, fd, op, maps, mem, out, err, status>>

\* munmap(map, size)
Munmap ==
  /\ pc = "AccessDone"
  /\ maps' = maps \ {Mapping}
  /\ log' = Append(log, <<"unmap", op>>)
  /\ pc' = "Unmapped"
  /\ UNCHANGED <<env, x, width, swap, OP, fd, op, mem, out, err, status>>

\* op++; op < ops: the next operation
LoopNext ==
  /\ pc = "Unmapped"
  /\ op < ops
  /\ op' = op + 1
  /\ pc' = "MapPending"
  /\ UNCHANGED <<env, x, width, swap, OP, fd, maps, mem, out, err, status, log>>

\* the loop is over: return 0
ReturnZero ==
  /\ pc = "Unmapped"
  /\ op = ops
  /\ status' = 0
  /\ pc' = "Exit"
  /\ UNCHANGED <<env, x, width, swap, OP, fd, op, maps, mem, out, err, log>>

Next ==
  \/ ParseMode
  \/ ParseTooMany
  \/ ParseChoke
  \/ ParseOp
  \/ Usage
  \/ OpenOk
  \/ OpenFail
  \/ MmapOk
  \/ MmapFail
  \/ DoAccess
  \/ Munmap
  \/ LoopNext
  \/ ReturnZero

Spec == Init /\ [][Next]_vars

(***************************************************************************)
(* What the claims speak of                                                *)
(***************************************************************************)
\* the mode characters of the variant that runs
ModeChars == IF variant = "extended" THEN {"b", "h", "w", "d", "H", "W", "D"}
             ELSE {"b", "h", "w", "d"}

\* the token at position i is taken as a mode token (its first character decides)
TakenAsMode(i) == CharAt(argv[i], 1) \in ModeChars

\* the token is exactly one mode character
ExactMode(i) == Len(argv[i]) = 1 /\ argv[i][1] \in ModeChars

\* physical memory holds what it held before the run
MemoryInitial == \A a \in DOMAIN mem : mem[a] = InitByte(seed, a)

\* nothing of the executor has happened: no open, no mapping, no access
NothingExecuted == ~fd /\ maps = {} /\ log = <<>> /\ mem = EmptyMem /\ out = <<>>

\* the number of tokens of argv that are operations
OperationCount == Cardinality({i \in 1..Len(argv) : ~TakenAsMode(i)})

\* argv holds a token that is invalid: no digits in the address, an
\* unrecognised operator, a missing value, characters after the value
HasInvalidToken == \E i \in 1..Len(argv) : argv[i] \in BadTokens

(***************************************************************************)
(* C1  Parse-then-execute.  The device is opened, and memory mapped, read  *)
(* or written, only after every token of argv has been parsed.  A run      *)
(* whose argv holds an invalid token (no digits in the address, an         *)
(* unrecognised operator, a missing value, characters after the value) or  *)
(* more than MAXOPS operations never opens the device, never touches       *)
(* memory and never exits with status 0; once it has exited, its status is *)
(* 1, also when the tokens before the bad one were valid writes.           *)
(***************************************************************************)
C1_ParseThenExecute ==
  /\ ~NothingExecuted => x = Len(argv) + 1 /\ ops = OperationCount
  /\ HasInvalidToken \/ OperationCount > MAXOPS =>
       /\ NothingExecuted /\ MemoryInitial
       /\ status # 0
       /\ pc = "Exit" => status = 1

\* a valid write was parsed, then a token was refused: the run is over with
\* status 1 and nothing was executed
C1_Witness ==
  /\ pc = "Exit" /\ status = 1 /\ HasInvalidToken
  /\ ops >= 1 /\ OP[1].operator = WRITE
  /\ CharAt(err, 1) = "is invalid"

\* the operation limit was exceeded after MAXOPS parsed operations
C1_WitnessLimit ==
  /\ pc = "Exit" /\ status = 1 /\ ops = MAXOPS
  /\ err = <<"Too many operations">>

(***************************************************************************)
(* C2  Only a token that is exactly one mode character is consumed as a    *)
(* mode token; any other token that is no well formed operation ends the   *)
(* run with non-zero status before any operation is executed.  Stated on   *)
(* the states of a run: a run that parsed past a token which is neither    *)
(* has executed nothing and has not exited with status 0.                  *)
(***************************************************************************)
C2_OnlyExactModeTokens ==
  (\E i \in 1..Len(argv) : ~ExactMode(i) /\ ~ParseOperation(argv[i], 32, FALSE).ok)
    => NothingExecuted /\ status # 0

RECURSIVE OperationPositions(_)
\* the positions of the tokens among argv[1..i] that are operations, in order
OperationPositions(i) ==
  IF i = 0 THEN <<>>
  ELSE IF TakenAsMode(i) THEN OperationPositions(i - 1)
       ELSE Append(OperationPositions(i - 1), i)

\* what the mode characters stand for
WidthOfChar(c) == CASE c = "b" -> 8
                    [] c \in {"h", "H"} -> 16
                    [] c \in {"w", "W"} -> 32
                    [] c \in {"d", "D"} -> 64

SwapOfChar(c) == c \in {"H", "W", "D"}

\* the largest member of M below i, 0 if there is none
LastBelow(M, i) ==
  LET S == {j \in M : j < i}
  IN  IF S = {} THEN 0 ELSE CHOOSE j \in S : \A k \in S : k <= j

(***************************************************************************)
(* C3  Mode persistence.  Every entry of the operation list carries the    *)
(* width and the byte-swap flag of the most recent mode token before its   *)
(* own token, or width 32 unswapped if there is none; a mode token appends *)
(* no entry; b, h, w, d leave byte-swap off, so an 8 bit operation is      *)
(* never swapped.  (A mode token is a token the parser takes as one.)      *)
(***************************************************************************)
C3_ModePersistence ==
  LET parsed == IF x <= Len(argv) THEN x - 1 ELSE Len(argv)
      modes  == {j \in 1..parsed : TakenAsMode(j)}
      pos    == OperationPositions(parsed)
  IN  /\ ops = Len(pos)
      /\ \A k \in 1..ops :
           LET j == LastBelow(modes, pos[k])
           IN  /\ OP[k].width = IF j = 0 THEN 32 ELSE WidthOfChar(argv[j][1])
               /\ OP[k].swap = IF j = 0 THEN FALSE ELSE SwapOfChar(argv[j][1])
               /\ OP[k].width = 8 => ~OP[k].swap

\* a mode in force over two operations, then changed: b addr1 addr2=5 h addr3
C3_Witness ==
  /\ pc = "Exit" /\ status = 0 /\ ops = 3 /\ Len(argv) = 5
  /\ OP[1].width = 8 /\ OP[2].width = 8 /\ OP[3].width = 16
  /\ argv[1] = <<"b">> /\ argv[4] = <<"h">>

\* the numbers the address and value texts of the model denote, as 8 bytes,
\* least significant first
NumberOf(t) ==
  CASE t = <<"0", "x", "F", "F", "F">>           -> <<255, 15, 0, 0, 0, 0, 0, 0>>
    [] t = <<"0", "x", "3", "F", "F", "D">>      -> <<253, 63, 0, 0, 0, 0, 0, 0>>
    [] t = <<"2", "6", "2", "1", "4", "4">>      -> <<0, 0, 4, 0, 0, 0, 0, 0>>
    [] t = <<"0", "1", "0">>                     -> <<8, 0, 0, 0, 0, 0, 0, 0>>
    [] t = <<"0", "x", "1", "8", "0", "F", "E">> -> <<254, 128, 1, 0, 0, 0, 0, 0>>
    [] t = <<"0", "x", "1", "F", "F", "F", "F">> -> <<255, 255, 1, 0, 0, 0, 0, 0>>
    [] t = <<"-", "1">>                          -> <<255, 255, 255, 255, 255, 255, 255, 255>>
    [] t = <<"0">>                               -> <<0, 0, 0, 0, 0, 0, 0, 0>>
    [] t = <<"0", "x", "1", "1", "2", "2", "3", "3", "4", "4",
             "A", "5", "B", "6", "C", "7", "D", "8">>
                                                 -> <<216, 199, 182, 165, 68, 51, 34, 17>>

\* v mod 2^(8n), v and the result in bytes, least significant first
Mod2(v, n) == [i \in 1..n |-> v[i]]

RECURSIVE InOrderFrom(_, _, _, _)
\* memory m and output o after the operations OP[lo..hi] are applied to
\* them one after the other in list order (the list is split in two halves to
\* keep the evaluation shallow: first the lower half, then the upper)
InOrderFrom(m, o, lo, hi) ==
  IF lo > hi THEN [m |-> m, o |-> o]
  ELSE IF lo = hi
       THEN [m |-> Access(m, seed, OP[lo], bigEndian),
             o |-> IF OP[lo].operator = READ
                   THEN Append(o, Format(ReadValue(m, seed, OP[lo], bigEndian)))
                   ELSE o]
       ELSE LET mid   == (lo + hi) \div 2
                lower == InOrderFrom(m, o, lo, mid)
            IN  IF Len(lower.o) >= 0   \* the lower half is evaluated first
                THEN InOrderFrom(lower.m, lower.o, mid + 1, hi)
                ELSE lower

\* physical memory and standard output after the first k operations of the
\* list are applied, in order, to the initial memory
InOrder(k) == InOrderFrom(EmptyMem, <<>>, 1, k)

\* the steps of the executor in the order the loop takes them
StepName(i) == CASE i % 3 = 1 -> "map" [] i % 3 = 2 -> "access" [] OTHER -> "unmap"

\* the number of operations whose access has been performed
Accessed == (Len(log) + 1) \div 3

(***************************************************************************)
(* C4  Execution order.  The operations are executed strictly in list      *)
(* order, each mapped, accessed and unmapped before the next begins.       *)
(* Standard output holds one line for each Read executed, in operation     *)
(* order, and the k-th Read prints the memory content that results from    *)
(* applying all earlier operations, in order, to the initial memory.       *)
(***************************************************************************)
C4_ExecutionOrder ==
  LET r == InOrder(Accessed)
  IN  /\ \A i \in 1..Len(log) : log[i] = <<StepName(i), ((i - 1) \div 3) + 1>>
      /\ Accessed <= ops
      /\ out = r.o
      /\ \A a \in DOMAIN mem \cup DOMAIN r.m : ByteAt(mem, seed, a) = ByteAt(r.m, seed, a)
      /\ Len(out) = Cardinality({k \in 1..Accessed : OP[k].operator = READ})
      /\ status = 0 => Accessed = ops

\* a read, a modification and a read of the same address were executed, and
\* the two lines printed differ
C4_Witness ==
  /\ status = 0 /\ ops = 3
  /\ OP[1].operator = READ /\ OP[2].operator # READ /\ OP[3].operator = READ
  /\ OP[1].address = OP[3].address
  /\ Len(out) = 2 /\ out[1] # out[2]

(***************************************************************************)
(* C5  Round trip.  The command line  [mode] addr=v addr  run in one mode, *)
(* native or swapped, prints v mod 2^w, w the width of the mode: in a      *)
(* swapped mode the swap before the store and the swap after the load      *)
(* cancel.                                                                 *)
(***************************************************************************)
C5_RoundTrip ==
  \A a \in AddrTexts, v \in ValueTexts :
    LET n == Len(argv)
        w == IF n = 3 THEN WidthOfChar(argv[1][1]) ELSE 32
    IN  (/\ status = 0
         /\ n \in {2, 3}
         /\ n = 3 => ExactMode(1)
         /\ argv[n - 1] = a \o <<"=">> \o v
         /\ argv[n] = a)
        => out = <<Format(Mod2(NumberOf(v), w \div 8))>>

\* H 0xFFF=0x180FE 0xFFF on a 4096 byte page system: a swapped 16 bit write
\* across the page boundary, read back as 0x80FE
C5_Witness ==
  /\ status = 0 /\ sysPage = 4096
  /\ argv = <<<<"H">>, TokWrite, TokA>>
  /\ OP[1].data = <<128, 254, 0, 0, 0, 0, 0, 0>>
  /\ out = <<<<"0", "x", "8", "0", "F", "E">>>>

\* bit i of a byte
BitOf(b, i) == (b \div (2 ^ i)) % 2

\* two bytes combined bit by bit by the kind of the operation
ByteBy(kind, p, q) ==
  LET bit(i) == CASE kind = <<"=">>      -> BitOf(q, i)
                  [] kind = <<"&", "=">> -> BitOf(p, i) * BitOf(q, i)
                  [] kind = <<"|", "=">> -> IF BitOf(p, i) + BitOf(q, i) > 0 THEN 1 ELSE 0
                  [] kind = <<"^", "=">> -> (BitOf(p, i) + BitOf(q, i)) % 2
  IN  bit(0) + 2 * bit(1) + 4 * bit(2) + 8 * bit(3)
        + 16 * bit(4) + 32 * bit(5) + 64 * bit(6) + 128 * bit(7)

\* the width the vector's only operation runs at, and whether it is swapped
SoleWidth == IF Len(argv) = 2 THEN WidthOfChar(argv[1][1]) ELSE 32
SoleSwap  == Len(argv) = 2 /\ SwapOfChar(argv[1][1])

\* the vector is one operation token t, alone or after one mode token, and
\* the operation's access has been performed
SoleDone(t) ==
  /\ Len(argv) \in {1, 2}
  /\ Len(argv) = 2 => ExactMode(1)
  /\ argv[Len(argv)] = t
  /\ Len(log) >= 2

\* the n byte object at address a as the machine holds it before the run, and now
ContentBefore(a, n) ==
  [i \in 1..n |-> InitByte(seed, Add64(a, IF bigEndian THEN n - i ELSE i - 1))]
ContentNow(a, n) ==
  [i \in 1..n |-> ByteAt(mem, seed, Add64(a, IF bigEndian THEN n - i ELSE i - 1))]

(***************************************************************************)
(* C6  Truncation.  After  addr=v, addr&=v, addr|=v, addr^=v  at width w   *)
(* the addressed location holds v mod 2^w, old AND (v mod 2^w), old OR     *)
(* (v mod 2^w), old XOR (v mod 2^w), old its content before.  In a swapped *)
(* mode v mod 2^w is taken first and its bytes are reversed then.  No byte *)
(* outside the location is written.                                        *)
(***************************************************************************)
C6_Truncation ==
  \A a \in AddrTexts, k \in OperatorTexts, v \in ValueTexts :
    SoleDone(a \o k \o v) =>
      LET n   == SoleWidth \div 8
          low == Mod2(NumberOf(v), n)
          arg == IF SoleSwap THEN [i \in 1..n |-> low[n + 1 - i]] ELSE low
          old == ContentBefore(NumberOf(a), n)
      IN  /\ ContentNow(NumberOf(a), n) = [i \in 1..n |-> ByteBy(k, old[i], arg[i])]
          /\ DOMAIN mem \subseteq {Add64(NumberOf(a), i) : i \in 0..(n - 1)}

\* H 0xFFF=0x180FE: the two bytes at 0xFFF hold 0xFE80 on a little endian
\* machine, 0x80 at 0xFFF and 0xFE at 0x1000
C6_Witness ==
  /\ argv = <<<<"H">>, TokWrite>> /\ ~bigEndian
  /\ pc = "Unmapped"
  /\ mem = (<<255, 15, 0, 0, 0, 0, 0, 0>> :> 128) @@ (<<0, 16, 0, 0, 0, 0, 0, 0>> :> 254)

\* the low n bytes of V are all ones
LowOnes(V, n) == \A i \in 1..n : NumberOf(V)[i] = 255

\* the operation leaves the content as it is: ^=0, |=0, &=V with low ones
Neutral(k, v, n) ==
  \/ k \in {<<"^", "=">>, <<"|", "=">>} /\ v = <<"0">>
  \/ k = <<"&", "=">> /\ LowOnes(v, n)

(***************************************************************************)
(* C7  Idempotence.  addr^=0, addr|=0 and addr&=V with the low w bits of V *)
(* all ones leave every byte of memory as it was before the operation, at  *)
(* every width, native and swapped.                                        *)
(***************************************************************************)
C7_Idempotence ==
  \A a \in AddrTexts, k \in OperatorTexts, v \in ValueTexts :
    (SoleDone(a \o k \o v) /\ Neutral(k, v, SoleWidth \div 8)) => MemoryInitial

\* H 0x3FFD&=0x1FFFF: a swapped 16 bit AND whose value has bits above the
\* sixteen ones; the two bytes were stored and are what they were
C7_Witness ==
  /\ argv = <<<<"H">>, <<"0", "x", "3", "F", "F", "D", "&", "=",
                        "0", "x", "1", "F", "F", "F", "F">>>>
  /\ status = 0
  /\ Cardinality(DOMAIN mem) = 2
  /\ MemoryInitial

\* a mapping is live for the operation the executor is at
Live == pc \in {"Mapped", "AccessDone"}

\* the page size the program computes with
ProgramPage == PageSizeOf(variant, sysPage)

\* the n bytes at physical address from lie in the region m: from is d bytes
\* above the start of m, and d + n is no more than the size of m
Within(m, from, d, n) ==
  /\ d >= 0
  /\ Add64(m.start, d) = from
  /\ d + n <= m.size

(***************************************************************************)
(* C8  Page boundary.  With P the page size the program computes with, the *)
(* mapping of an operation starts at address - (address mod P), it is 2*P  *)
(* bytes long exactly when (address mod P) + width/8 > P and P bytes       *)
(* otherwise, and every byte of the access lies inside it.  An access that *)
(* straddles the boundary of two pages stores and loads its bytes on both  *)
(* sides: the content of the location and the line printed are those of    *)
(* the bytes at address, address + 1, ... in physical memory.              *)
(***************************************************************************)
C8_PageBoundary ==
  /\ Live =>
       LET o   == OP[op]
           P   == ProgramPage
           off == Low24(o.address) % P
           n   == o.width \div 8
       IN  \E m \in maps :
             /\ maps = {m}
             /\ Low24(m.start) % P = 0
             /\ Add64(m.start, off) = o.address
             /\ m.size = IF off + n > P THEN 2 * P ELSE P
             /\ Within(m, o.address, off, n)
  /\ (pc = "AccessDone" /\ op = 1) =>
       LET o   == OP[1]
           n   == o.width \div 8
           old == ContentBefore(o.address, n)
           now == ContentNow(o.address, n)
       IN  CASE o.operator = READ  ->
                  /\ now = old
                  /\ out = <<Format(IF o.swap THEN [i \in 1..n |-> old[n + 1 - i]]
                                              ELSE old)>>
             [] o.operator = WRITE -> now = Mod2(o.data, n)
             [] OTHER              -> TRUE

\* w 0xFFF=0x180FE with 4096 byte pages: two pages from 0 are mapped, one
\* byte was stored below the boundary at 0x1000 and three above it
C8_Witness ==
  /\ argv = <<<<"w">>, TokWrite>> /\ ~bigEndian /\ ProgramPage = 4096
  /\ pc = "AccessDone"
  /\ maps = {[start |-> Zero64, size |-> 8192]}
  /\ mem[<<255, 15, 0, 0, 0, 0, 0, 0>>] = 254
  /\ mem[<<0, 16, 0, 0, 0, 0, 0, 0>>] = 128
  /\ mem[<<1, 16, 0, 0, 0, 0, 0, 0>>] = 1
  /\ mem[<<2, 16, 0, 0, 0, 0, 0, 0>>] = 0

(***************************************************************************)
(* C9  Page size from the environment.  Whatever page size P the system    *)
(* reports, the executor takes address mod P for the page offset, maps     *)
(* from address - (address mod P), a multiple of P, and asks for P or 2*P  *)
(* bytes.                                                                  *)
(***************************************************************************)
C9_PageSizeFromEnvironment ==
  pc \in {"MapPending", "Mapped", "AccessDone"} =>
    LET off == Low24(OP[op].address) % sysPage
    IN  /\ Low24(Mapping.start) % sysPage = 0
        /\ Add64(Mapping.start, off) = OP[op].address
        /\ Mapping.size \in {sysPage, 2 * sysPage}

\* the steps logged for operation k, in the order they were taken
StepsOf(k) == SelectSeq(log, LAMBDA e : e[2] = k)

(***************************************************************************)
(* C10  Map/unmap lifecycle.  Each operation is mapped, accessed and       *)
(* unmapped, in this order and once each, before the next is mapped; a     *)
(* mapping is live exactly between its map and its unmap, it is the one of *)
(* the operation at hand, and there is never a second one.  The access is  *)
(* made while the mapping is live.  When the run completes no mapping is   *)
(* live and every operation went through the three steps.  A run that has  *)
(* opened the device ends otherwise only where a map was refused.          *)
(***************************************************************************)
C10_Lifecycle ==
  /\ Cardinality(maps) <= 1
  /\ Live => maps = {Mapping}
  /\ ~Live => maps = {}
  /\ \A k \in 1..ops :
       StepsOf(k) = CASE k < op  -> <<<<"map", k>>, <<"access", k>>, <<"unmap", k>>>>
                      [] k > op  -> <<>>
                      [] pc = "Mapped"     -> <<<<"map", k>>>>
                      [] pc = "AccessDone" -> <<<<"map", k>>, <<"access", k>>>>
                      [] pc \in {"Unmapped", "Exit"} /\ status # 1
                                           -> <<<<"map", k>>, <<"access", k>>, <<"unmap", k>>>>
                      [] OTHER             -> <<>>
  /\ status = 0 => op = ops /\ Len(log) = 3 * ops
  /\ (status = 1 /\ fd) => err[1] = "Can't map address"

\* the third operation was refused its mapping after two operations were
\* mapped, accessed and unmapped
C10_Witness ==
  /\ status = 1 /\ fd /\ op = 3
  /\ maps = {}
  /\ Len(log) = 6 /\ log[6] = <<"unmap", 2>>

\* the run ended where mmap() refused the mapping of operation op
MapFailed == pc = "Exit" /\ fd /\ err # <<>> /\ err[1] = "Can't map address"

(***************************************************************************)
(* C11  Mapping failure.  When the map of the k-th operation fails the run *)
(* ends with non-zero status; operation k and the operations after it      *)
(* access nothing and print nothing; memory and standard output are what   *)
(* the operations before k made them, nothing is undone.                   *)
(***************************************************************************)
C11_MappingFailure ==
  MapFailed =>
    LET before == InOrder(op - 1)
    IN  /\ status = 1
        /\ err[2] = OP[op].address
        /\ \A i \in 1..Len(log) : log[i][2] < op
        /\ Len(log) = 3 * (op - 1)
        /\ out = before.o
        /\ \A a \in DOMAIN mem \cup DOMAIN before.m :
             ByteAt(mem, seed, a) = ByteAt(before.m, seed, a)
        /\ maps = {}

\* 0xFFF=0x180FE 0xFFF 0xFFF: the write was stored and the first read
\* printed before the map of the third operation failed
C11_Witness ==
  /\ MapFailed /\ op = 3 /\ ops = 3
  /\ argv = <<TokWrite, TokA, TokA>>
  /\ Len(out) = 1
  /\ mem # EmptyMem

\* the number of steps of one kind the executor has taken
StepCount(step) == Cardinality({i \in 1..Len(log) : log[i][1] = step})

\* every token was parsed
AllParsed == x = Len(argv) + 1

(***************************************************************************)
(* C12  Exit status.  The run ends with status 0 exactly when every token  *)
(* parsed, the list holds at least one operation, the device opened and    *)
(* the map of every operation succeeded; every operation of the list was   *)
(* executed then.  A parse error, an empty list, a failed open and a       *)
(* failed map end the run with non-zero status, and after a failed open    *)
(* memory is untouched.                                                    *)
(***************************************************************************)
C12_ExitStatus ==
  /\ status \in {-1, 0, 1}
  /\ pc = "Exit" <=> status # -1
  /\ pc = "Exit" =>
       /\ status = 0 <=> (AllParsed /\ ops >= 1 /\ fd /\ StepCount("map") = ops)
       /\ status = 0 => StepCount("access") = ops /\ StepCount("unmap") = ops
       /\ (~AllParsed \/ ops = 0 \/ ~fd \/ MapFailed) => status = 1
       /\ ~AllParsed => err \in {<<"is invalid", argv[x]>>, <<"Too many operations">>}
       /\ (AllParsed /\ ops = 0) => err = <<"Usage">>
       /\ (AllParsed /\ ops >= 1 /\ ~fd) =>
            /\ err = <<"Can't open /dev/mem">>
            /\ mem = EmptyMem /\ out = <<>> /\ log = <<>> /\ maps = {}

\* a write was parsed, the device did not open: status 1, nothing stored
C12_Witness ==
  /\ pc = "Exit" /\ status = 1
  /\ argv = <<TokWrite>> /\ ops = 1
  /\ err = <<"Can't open /dev/mem">>
  /\ mem = EmptyMem

\* argv is empty or holds mode tokens only
OnlyModes == \A i \in 1..Len(argv) : ExactMode(i)

(***************************************************************************)
(* C13  Zero operations.  A run whose argv is empty or holds mode tokens   *)
(* only never opens the device and never accesses memory; it ends with the *)
(* usage text on standard error and a non-zero status, and in no other     *)
(* way.                                                                    *)
(***************************************************************************)
C13_ZeroOperations ==
  OnlyModes =>
    /\ ops = 0
    /\ NothingExecuted
    /\ pc \in {"Parse", "Exit"}
    /\ status # 0
    /\ pc = "Exit" => err = <<"Usage">> /\ status = 1 /\ AllParsed
    /\ pc = "Parse" => err = <<>> /\ status = -1

\* b H in the extended variant: two mode tokens, the usage text, status 1
C13_Witness ==
  /\ argv = <<<<"b">>, <<"H">>>> /\ variant = "extended"
  /\ pc = "Exit" /\ status = 1 /\ err = <<"Usage">>
  /\ width = 16 /\ swap /\ ~fd

\* the kind an operator text stands for
KindOf(k) == CASE k = <<"=">>      -> WRITE
               [] k = <<"&", "=">> -> AND
               [] k = <<"^", "=">> -> XOR
               [] k = <<"|", "=">> -> OR

\* the value v as the list holds it at n bytes: as it is, or its low n bytes
\* reversed in a swapped mode
HeldValue(v, n, sw) ==
  IF sw THEN [i \in 1..8 |-> IF i <= n THEN v[n + 1 - i] ELSE 0] ELSE v

(***************************************************************************)
(* C14  Operation-token grammar.  A token that is tried as an operation    *)
(* is an address followed by nothing (Read), by = and a value (Write), by  *)
(* &= and a value (And), by ^= and a value (Xor) or by |= and a value      *)
(* (Or); the entry it appends holds this kind, the address and the value.  *)
(* A token whose address has no digits, whose &, ^ or | is not followed    *)
(* by =, whose address is followed by another character, whose value is    *)
(* empty or is followed by more characters is refused as invalid and never *)
(* passed.  (Stated on the latest entries of the list in every state; the  *)
(* list only grows.)                                                       *)
(***************************************************************************)
C14_Grammar ==
  LET parsed == IF x <= Len(argv) THEN x - 1 ELSE Len(argv)
      pos    == OperationPositions(parsed)
  IN  /\ \A k \in 1..Len(pos) :
           (k <= ops /\ k > ops - (MaxArgs + 2)) =>
             LET t == argv[pos[k]]
             IN  /\ t \notin BadTokens
                 /\ \A a \in AddrTexts :
                      t = a => /\ OP[k].operator = READ
                               /\ OP[k].address = NumberOf(a)
                 /\ t \in ModifyTokens =>
                      \A a \in AddrTexts, kt \in OperatorTexts, v \in ValueTexts :
                        t = a \o kt \o v =>
                          /\ OP[k].operator = KindOf(kt)
                          /\ OP[k].address = NumberOf(a)
                          /\ OP[k].data = HeldValue(NumberOf(v), OP[k].width \div 8,
                                                    OP[k].swap)
      /\ \A i \in 1..parsed : argv[i] \notin BadTokens
      /\ (pc = "Exit" /\ ~AllParsed) =>
           /\ argv[x] \in BadTokens => err = <<"is invalid", argv[x]>>
           /\ argv[x] \in OpTokens => err = <<"Too many operations">>
           /\ status = 1

\* 0x3FFD^=-1 alone: a Xor of all ones at 0x3FFD
C14_Witness ==
  /\ argv = <<<<"0", "x", "3", "F", "F", "D", "^", "=", "-", "1">>>>
  /\ AllParsed /\ pc = "Parse"
  /\ OP = <<[operator |-> XOR, width |-> 32, swap |-> FALSE,
             address |-> <<253, 63, 0, 0, 0, 0, 0, 0>>, data |-> AllOnes64]>>

\* the number of tokens among the first i that are tried as operations
OperationsUpTo(i) == Cardinality({j \in 1..i : ~TakenAsMode(j)})

(***************************************************************************)
(* C15  Operation limit.  The list never holds more than 256 entries.  A   *)
(* vector with 256 operation tokens and mode tokens among them parses:     *)
(* mode tokens do not count.  The 257th operation token ends the run with  *)
(* "Too many operations" and non-zero status before the device is opened   *)
(* or memory accessed.                                                     *)
(***************************************************************************)
C15_OperationLimit ==
  /\ ops <= 256
  /\ ops = OperationsUpTo(IF x <= Len(argv) THEN x - 1 ELSE Len(argv))
  /\ err = <<"Too many operations">> =>
       /\ x <= Len(argv) /\ OperationsUpTo(x) = 257 /\ ops = 256
       /\ status = 1 /\ pc = "Exit"
       /\ NothingExecuted
  /\ (OperationCount > 256 /\ ~HasInvalidToken) =>
       /\ x <= Len(argv) /\ OperationsUpTo(x) <= 257
       /\ NothingExecuted
       /\ status # 0
  /\ (OperationCount <= 256 /\ pc = "Exit" /\ ~AllParsed) => err[1] = "is invalid"

\* 256 operation tokens between two mode tokens: all parsed, all executed
C15_Witness ==
  /\ Len(argv) = 258 /\ OperationCount = 256
  /\ ops = 256 /\ op = 256
  /\ pc = "Exit" /\ status = 0
  /\ Len(log) = 768

\* the run is a swapped mode token followed by operations on one address,
\* all of them parsed
SwappedRun ==
  /\ Len(argv) >= 2 /\ ExactMode(1) /\ SwapOfChar(argv[1][1])
  /\ \A i \in 2..Len(argv) : ~TakenAsMode(i)
  /\ AllParsed /\ ops = Len(argv) - 1
  /\ \A k \in 1..ops : OP[k].address = OP[1].address

\* the list the same operation tokens give in the native mode of the width
NativeList ==
  [k \in 1..ops |-> ParseOperation(argv[k + 1], WidthOfChar(argv[1][1]), FALSE).op]

\* memory whose content at the address of the run is the byte reversal of
\* the initial content
ReversedInitial ==
  LET n == OP[1].width \div 8
      a == OP[1].address
  IN  Store(EmptyMem, a, n, bigEndian, Reverse(Load(EmptyMem, seed, a, n, bigEndian)))

RECURSIVE RunList(_, _, _, _)
\* memory m and output o after the first k operations of a list are applied
RunList(list, m, o, k) ==
  IF k = 0 THEN [m |-> m, o |-> o]
  ELSE LET r == RunList(list, m, o, k - 1)
           e == list[k]
       IN  [m |-> Access(r.m, seed, e, bigEndian),
            o |-> IF e.operator = READ
                  THEN Append(r.o, Format(ReadValue(r.m, seed, e, bigEndian)))
                  ELSE r.o]

(***************************************************************************)
(* C16  Swap is a pure formatting property.  A sequence of operations on   *)
(* one address run in the swapped mode of width w prints what the same     *)
(* sequence prints in the native mode of width w on a memory whose initial *)
(* content at the address is byte reversed, and the contents of the        *)
(* location in the two runs are byte reversals of each other, after every  *)
(* operation and at the end of the run.                                    *)
(***************************************************************************)
C16_SwapIsFormatting ==
  ((pc = "AccessDone" \/ status = 0) /\ SwappedRun) =>
    LET n      == OP[1].width \div 8
        a      == OP[1].address
        native == RunList(NativeList, ReversedInitial, <<>>, Accessed)
    IN  /\ out = native.o
        /\ Load(mem, seed, a, n, bigEndian)
             = Reverse(Load(native.m, seed, a, n, bigEndian))

\* W 0xFFF^=0x180FE 0xFFF&=0x11223344A5B6C7D8 0xFFF: a swapped Xor and And,
\* then the read that prints the logical value
C16_Witness ==
  /\ argv = <<<<"W">>, TokA \o <<"^", "=", "0", "x", "1", "8", "0", "F", "E">>,
              TokA \o <<"&", "=", "0", "x", "1", "1", "2", "2", "3", "3", "4", "4",
                        "A", "5", "B", "6", "C", "7", "D", "8">>, TokA>>
  /\ status = 0 /\ Len(out) = 1
  /\ SwappedRun

\* the addresses of the bytes of the location operation o accesses
LocationOf(o) == {Add64(o.address, i) : i \in 0..((o.width \div 8) - 1)}

(***************************************************************************)
(* C17  Frame.  A step changes a byte of memory only if it is the access   *)
(* of an operation that is no Read, and then only bytes of the location    *)
(* [a, a + w/8) of that operation: parsing, mapping, unmapping and a Read  *)
(* change no byte, and no access changes a byte outside its location, also *)
(* when the location straddles a page boundary.                            *)
(***************************************************************************)
C17_Frame ==
  [][\A a \in DOMAIN mem \cup DOMAIN mem' :
       (a \notin DOMAIN mem \/ ByteAt(mem', seed, a) # ByteAt(mem, seed, a)) =>
         /\ pc = "Mapped" /\ pc' = "AccessDone"
         /\ OP[op].operator # READ
         /\ a \in LocationOf(OP[op])]_vars

\* D 0xFFF=0x11223344A5B6C7D8 with 4096 byte pages: eight bytes stored, one
\* below the page boundary and seven above it, and no other
C17_Witness ==
  /\ argv = <<<<"D">>, TokA \o <<"=", "0", "x", "1", "1", "2", "2", "3", "3", "4", "4",
                                "A", "5", "B", "6", "C", "7", "D", "8">>>>
  /\ pc = "AccessDone" /\ sysPage = 4096
  /\ DOMAIN mem = LocationOf(OP[1])
  /\ <<255, 15, 0, 0, 0, 0, 0, 0>> \in DOMAIN mem
  /\ <<6, 16, 0, 0, 0, 0, 0, 0>> \in DOMAIN mem

====
